---- MODULE Spec2Model ----
(***************************************************************************)
(* The Network NACK header codec of ndn-cxx/lp/nack-header.{hpp,cpp}:      *)
(* NackReason and isLessSevere, the NackHeader fields and setters, the     *)
(* two-pass wireEncode, the cached Block m_wire and wireDecode.            *)
(*                                                                         *)
(* The wire is modelled byte for byte.  A Block is the sequence of its     *)
(* bytes; the Block without wire is the empty sequence.  A 64-bit unsigned *)
(* value is the tuple of its eight bytes, most significant first, so that  *)
(* the integer casts of the code keep their width.  A NackReason is the    *)
(* signed 32-bit value of the enumeration's underlying type (int).         *)
(***************************************************************************)
EXTENDS Integers, Sequences, FiniteSets, TLC

VARIABLES
  m_reason,             \* NackReason m_reason (int)
  m_nackId,             \* uint64_t m_nackId
  m_prefixLen,          \* uint64_t m_prefixLen
  m_fakeInterestNames,  \* std::list<Name> m_fakeInterestNames
  m_wire,               \* mutable Block m_wire (<<>> when it has no wire)
  lastCall,             \* name of the member function called last
  lastMut,              \* the last call that assigns fields, with its argument
  expected,             \* the fields that call is to leave: after a setter, its argument
                        \* and the former values of the other three fields; after the
                        \* construction from an encoded Block, the fields encoded
  pre,                  \* m_nackId and m_prefixLen before that call, if it is a wireDecode
  ret,                  \* what the last call returned or threw
  passes,               \* byte counts of the two passes of the last uncached wireEncode()
  crashed,              \* the process was killed by a read of unmapped memory
  sev                   \* one call of isLessSevere: its arguments and result

vars == <<m_reason, m_nackId, m_prefixLen, m_fakeInterestNames, m_wire,
          lastCall, lastMut, expected, pre, ret, passes, crashed, sev>>

----------------------------------------------------------------------------
(* enum class NackReason *)
DDOS_HINT_CHANGE_NOTICE == -150
DDOS_FAKE_INTEREST == -100
DDOS_VALID_INTEREST_OVERLOAD == -50
DDOS_RESET_RATE == -30
DDOS_REPORT_VALID == -10
NONE == 0
CONGESTION == 50
DUPLICATE == 100
NO_ROUTE == 150

NackReason == {DDOS_HINT_CHANGE_NOTICE, DDOS_FAKE_INTEREST, DDOS_VALID_INTEREST_OVERLOAD,
               DDOS_RESET_RATE, DDOS_REPORT_VALID, NONE, CONGESTION, DUPLICATE, NO_ROUTE}

(* TLV type numbers: ndn-cxx/lp/tlv.hpp and ndn-cxx/encoding/tlv.hpp *)
Nack == 800
NackReasonType == 801
NackId == 802
NackPrefixLength == 803
NackFakeNameList == 804
NameType == 7
GenericNameComponent == 8

----------------------------------------------------------------------------
(* Bytes and fixed-width integers *)
Byte == 0..255

\* the big-endian bytes of n, 0 <= n < 2^31, on w bytes (w <= 4)
RECURSIVE BigEndian(_, _)
BigEndian(n, w) == IF w = 0 THEN <<>> ELSE Append(BigEndian(n \div 256, w - 1), n % 256)

\* the value of at most three big-endian bytes
RECURSIVE FromBigEndian(_)
FromBigEndian(b) ==
  IF b = <<>> THEN 0 ELSE FromBigEndian(SubSeq(b, 1, Len(b) - 1)) * 256 + b[Len(b)]

Zeros(k) == [i \in 1..k |-> 0]

\* a natural below 2^31 as a uint64_t
Nat64(n) == Zeros(4) \o BigEndian(n, 4)

\* static_cast<uint32_t>(m_reason), widened to the uint64_t parameter of
\* prependNonNegativeIntegerBlock: two's complement on 32 bits, zero-extended
ReasonToUint(r) ==
  IF r >= 0 THEN Nat64(r)
  ELSE LET low31 == (r + 2147483647) + 1
       IN Zeros(4) \o <<128 + (low31 \div 16777216)>> \o BigEndian(low31 % 16777216, 3)

\* static_cast<NackReason>(uint64_t): the value is converted to the underlying
\* type int, which keeps the low 32 bits as a two's complement number
UintToReason(v) ==
  LET low24 == FromBigEndian(SubSeq(v, 6, 8))
  IN IF v[5] < 128 THEN v[5] * 16777216 + low24
     ELSE (((v[5] - 128) * 16777216 + low24) - 2147483647) - 1

----------------------------------------------------------------------------
(* Variable-length numbers (TLV-TYPE and TLV-LENGTH), numbers below 2^31 *)

\* the bytes Encoder::prependVarNumber writes
VarNumberBytes(n) ==
  IF n < 253 THEN <<n>>
  ELSE IF n <= 65535 THEN <<253>> \o BigEndian(n, 2)
  ELSE <<254>> \o BigEndian(n, 4)

\* the count Estimator::prependVarNumber returns
VarNumberSize(n) == IF n < 253 THEN 1 ELSE IF n <= 65535 THEN 3 ELSE 5

\* tlv::readVarNumber at the head of b: [ok, n, used]; only the shortest
\* encoding of a number is accepted
ReadVarNumber(b) ==
  LET bad == [ok |-> FALSE, n |-> 0, used |-> 0]
  IN IF b = <<>> THEN bad
     ELSE IF b[1] < 253 THEN [ok |-> TRUE, n |-> b[1], used |-> 1]
     ELSE IF b[1] = 253 THEN
            IF Len(b) < 3 THEN bad
            ELSE LET n == FromBigEndian(SubSeq(b, 2, 3))
                 IN IF n < 253 THEN bad ELSE [ok |-> TRUE, n |-> n, used |-> 3]
     ELSE IF b[1] = 254 THEN
            IF Len(b) < 5 \/ b[2] >= 128 THEN bad
            ELSE LET n == b[2] * 16777216 + FromBigEndian(SubSeq(b, 3, 5))
                 IN IF n <= 65535 THEN bad ELSE [ok |-> TRUE, n |-> n, used |-> 5]
     ELSE bad

(* Non-negative integers *)

\* the bytes Encoder::prependNonNegativeInteger writes: 1, 2, 4 or 8 bytes
NonNegativeIntegerBytes(v) ==
  IF SubSeq(v, 1, 7) = Zeros(7) THEN SubSeq(v, 8, 8)
  ELSE IF SubSeq(v, 1, 6) = Zeros(6) THEN SubSeq(v, 7, 8)
  ELSE IF SubSeq(v, 1, 4) = Zeros(4) THEN SubSeq(v, 5, 8)
  ELSE v

\* the count Estimator::prependNonNegativeInteger returns
NonNegativeIntegerSize(v) ==
  IF SubSeq(v, 1, 7) = Zeros(7) THEN 1
  ELSE IF SubSeq(v, 1, 6) = Zeros(6) THEN 2
  ELSE IF SubSeq(v, 1, 4) = Zeros(4) THEN 4
  ELSE 8

\* readNonNegativeInteger(block): a value of 1, 2, 4 or 8 bytes, else tlv::Error
CanReadNonNegativeInteger(value) == Len(value) \in {1, 2, 4, 8}
readNonNegativeInteger(value) == Zeros(8 - Len(value)) \o value

----------------------------------------------------------------------------
(* Blocks *)

\* a TLV element of the given type and value bytes
MakeBlock(type, value) == VarNumberBytes(type) \o VarNumberBytes(Len(value)) \o value

\* Block::type() and the value bytes of a Block that has wire
BlockType(b) == ReadVarNumber(b).n
BlockValue(b) ==
  LET t == ReadVarNumber(b)
      rest == SubSeq(b, t.used + 1, Len(b))
      l == ReadVarNumber(rest)
  IN SubSeq(rest, l.used + 1, l.used + l.n)

\* Block::parse(): the value bytes split into the sub-elements [type, value];
\* ok is FALSE where parse() throws tlv::Error (bytes run short, length overrun)
RECURSIVE ParseElements(_)
ParseElements(b) ==
  LET bad == [ok |-> FALSE, elems |-> <<>>]
  IN IF b = <<>> THEN [ok |-> TRUE, elems |-> <<>>]
     ELSE LET t == ReadVarNumber(b)
              rest == SubSeq(b, t.used + 1, Len(b))
              l == ReadVarNumber(rest)
              body == SubSeq(rest, l.used + 1, Len(rest))
          IN IF ~t.ok \/ ~l.ok \/ l.n > Len(body) THEN bad
             ELSE LET tail == ParseElements(SubSeq(body, l.n + 1, Len(body)))
                  IN IF ~tail.ok THEN bad
                     ELSE [ok |-> TRUE,
                           elems |-> <<[type |-> t.n, value |-> SubSeq(body, 1, l.n)]>>
                                     \o tail.elems]

(* Names: a Name is the sequence of its components [type, value] *)
RECURSIVE ComponentBytes(_)
ComponentBytes(name) ==
  IF name = <<>> THEN <<>>
  ELSE MakeBlock(name[1].type, name[1].value) \o ComponentBytes(Tail(name))

\* Name::wireEncode()
NameWireEncode(name) == MakeBlock(NameType, ComponentBytes(name))

\* Name::Name(const Block&): the components of the element, or tlv::Error
CanDecodeName(elem) == elem.type = NameType /\ ParseElements(elem.value).ok
NameWireDecode(elem) == ParseElements(elem.value).elems

----------------------------------------------------------------------------
(* The encoders.  An encoder is [TAG, buf]: the Estimator only counts, the   *)
(* Buffer also holds the bytes written so far.  Each prepend yields          *)
(* [enc, n]: the encoder after the call and the count the call returns.      *)
NewEncoder(TAG) == [TAG |-> TAG, buf |-> <<>>]

prependBytes(enc, bytes) ==
  IF enc.TAG = "Buffer" THEN [enc EXCEPT !.buf = bytes \o @] ELSE enc

prependVarNumber(enc, n) ==
  [enc |-> prependBytes(enc, VarNumberBytes(n)),
   n |-> IF enc.TAG = "Buffer" THEN Len(VarNumberBytes(n)) ELSE VarNumberSize(n)]

prependNonNegativeInteger(enc, v) ==
  [enc |-> prependBytes(enc, NonNegativeIntegerBytes(v)),
   n |-> IF enc.TAG = "Buffer" THEN Len(NonNegativeIntegerBytes(v))
         ELSE NonNegativeIntegerSize(v)]

\* prependBlock(block) of a Block that has wire
prependBlock(enc, block) == [enc |-> prependBytes(enc, block), n |-> Len(block)]

\* the running total of a wireEncode pass: s is [enc, length], and
\* Add(s, r) is `length += <prepend>` for the [enc, n] of that prepend
Add(s, r) == [enc |-> r.enc, length |-> s.length + r.n]

\* prependNonNegativeIntegerBlock(encoder, type, value): the value, then its
\* length, then the type; the count returned is the total of the three
prependNonNegativeIntegerBlock(enc, type, v) ==
  LET value == prependNonNegativeInteger(enc, v)
      withLength == Add([enc |-> enc, length |-> value.n],
                        prependVarNumber(value.enc, value.n))
      withType == Add(withLength, prependVarNumber(withLength.enc, type))
  IN [enc |-> withType.enc, n |-> withType.length]

----------------------------------------------------------------------------
(* NackHeader *)

\* the header as a record of its members
Header(reason, id, prefixLen, names, wire) ==
  [m_reason |-> reason, m_nackId |-> id, m_prefixLen |-> prefixLen,
   m_fakeInterestNames |-> names, m_wire |-> wire]

This == Header(m_reason, m_nackId, m_prefixLen, m_fakeInterestNames, m_wire)

\* the four fields of a header, without the cache
FieldsOf(h) == [reason |-> h.m_reason, id |-> h.m_nackId, prefixLen |-> h.m_prefixLen,
                names |-> h.m_fakeInterestNames]

hasWire(block) == block # <<>>

\* bool isLessSevere(lp::NackReason x, lp::NackReason y)
isLessSevere_NoneLast(x, y) ==
  IF y = NONE THEN TRUE
  ELSE IF x = NONE THEN FALSE
  ELSE x < y

isLessSevere(x, y) ==
  IF x = NONE THEN FALSE
  ELSE IF y = NONE THEN TRUE
  ELSE x < y

\* NackReason NackHeader::getReason() const
getReason(reason) ==
  IF reason \in {DDOS_FAKE_INTEREST, CONGESTION, DUPLICATE, NO_ROUTE} THEN reason ELSE NONE

\* the loop over m_fakeInterestNames from rbegin() to rend(): k names are left
RECURSIVE prependNames_Forward(_, _, _)
prependNames_Forward(s, names, k) ==
  IF k = 0 THEN s
  ELSE prependNames_Forward(
         Add(s, prependBlock(s.enc, NameWireEncode(names[Len(names) - k + 1]))), names, k - 1)

RECURSIVE prependNames(_, _, _)
prependNames(s, names, k) ==
  IF k = 0 THEN s
  ELSE prependNames(Add(s, prependBlock(s.enc, NameWireEncode(names[k]))), names, k - 1)

\* the statements of the template wireEncode, each as the step it makes on
\* the running total s = [enc, length]
\*   lines 80-86: if (m_fakeInterestNames.size() > 0) for (...) length += prependBlock(...)
encodeNames(s, names) == IF Len(names) > 0 THEN prependNames(s, names, Len(names)) ELSE s
\*   length += encoder.prependVarNumber(length)
encodeLength(s) == Add(s, prependVarNumber(s.enc, s.length))
\*   length += encoder.prependVarNumber(type)
encodeType(s, type) == Add(s, prependVarNumber(s.enc, type))
\*   length += prependNonNegativeIntegerBlock(encoder, type, value)
encodeInteger(s, type, v) == Add(s, prependNonNegativeIntegerBlock(s.enc, type, v))
\*   encoder.prependVarNumber(type), its count dropped
encodeType_NotCounted(s, type) == [s EXCEPT !.enc = prependVarNumber(s.enc, type).enc]

\* template<encoding::Tag TAG> size_t NackHeader::wireEncode(EncodingImpl<TAG>&) const:
\* [enc, length], the encoder after the pass and the length returned.  The
\* statements run from the innermost application outwards.
wireEncodeT_OuterTypeNotCounted(TAG, h) ==
  encodeType_NotCounted(
    encodeLength(
      encodeInteger(
        encodeInteger(
          encodeInteger(
            encodeType(
              encodeLength(
                encodeNames([enc |-> NewEncoder(TAG), length |-> 0],
                            h.m_fakeInterestNames)),
              NackFakeNameList),
            NackPrefixLength, h.m_prefixLen),
          NackId, h.m_nackId),
        NackReasonType, ReasonToUint(h.m_reason))),
    Nack)

wireEncodeT(TAG, h) ==
  encodeType(
    encodeLength(
      encodeInteger(
        encodeInteger(
          encodeInteger(
            encodeType(
              encodeLength(
                encodeNames([enc |-> NewEncoder(TAG), length |-> 0],
                            h.m_fakeInterestNames)),
              NackFakeNameList),
            NackPrefixLength, h.m_prefixLen),
          NackId, h.m_nackId),
        NackReasonType, ReasonToUint(h.m_reason))),
    Nack)

----------------------------------------------------------------------------
(* wireDecode.  The children of m_wire are followed by what lies in memory   *)
(* past the end of the element vector: the iterator is advanced without a    *)
(* comparison with elements_end(), so a NACK of one, two or three children   *)
(* makes the code read there.  Such a slot holds an arbitrary element, or is *)
(* unmapped (type Unmapped), and then the read kills the process.            *)
Unmapped == -1

\* a decode step ends: the header so far, how the call ended, and whether
\* an element past the end of the vector was read
Done(h, outcome, overread) == [h |-> h, outcome |-> outcome, overread |-> overread]

\* the while loop: Name children from position i on are appended until the
\* first child that is not a Name; [ok, names], ok FALSE where Name(block) throws
RECURSIVE decodeNames_SkipNonNames(_, _, _)
decodeNames_SkipNonNames(children, i, names) ==
  IF i > Len(children) THEN [ok |-> TRUE, names |-> names]
  ELSE IF children[i].type # NameType THEN decodeNames_SkipNonNames(children, i + 1, names)
  ELSE IF CanDecodeName(children[i])
       THEN decodeNames_SkipNonNames(children, i + 1,
                                     Append(names, NameWireDecode(children[i])))
       ELSE [ok |-> FALSE, names |-> names]

RECURSIVE decodeNames(_, _, _)
decodeNames(children, i, names) ==
  IF i <= Len(children) /\ children[i].type = NameType
  THEN IF CanDecodeName(children[i])
       THEN decodeNames(children, i + 1, Append(names, NameWireDecode(children[i])))
       ELSE [ok |-> FALSE, names |-> names]
  ELSE [ok |-> TRUE, names |-> names]

\* it->parse() and the loop over the parsed list, lines 169-179
decodeList(h, list, over) ==
  IF ~list.ok THEN Done(h, "Error", over)
  ELSE IF Len(list.elems) # 0
       THEN Done([h EXCEPT !.m_fakeInterestNames =
                             decodeNames(list.elems, 1, h.m_fakeInterestNames).names],
                 IF decodeNames(list.elems, 1, h.m_fakeInterestNames).ok
                 THEN "ok" ELSE "Error",
                 over)
       ELSE Done(h, "ok", over)

\* the NackFakeNameList step; `it` is at position 4 of mem, n children are real
decodeFakeNameList(h, mem, n) ==
  IF mem[4].type = Unmapped THEN Done(h, "crash", 4 > n)
  ELSE IF mem[4].type = NackFakeNameList
       THEN decodeList(h, ParseElements(mem[4].value), 4 > n)
       ELSE Done(h, "Error", 4 > n)

\* the NackPrefixLength step; `it` is at position 3
decodePrefixLength(h, mem, n) ==
  LET it == mem[3]
      over == 3 > n
  IN IF it.type = Unmapped THEN Done(h, "crash", over)
     ELSE IF it.type = NackPrefixLength THEN
            IF CanReadNonNegativeInteger(it.value)
            THEN decodeFakeNameList(
                   [h EXCEPT !.m_prefixLen = readNonNegativeInteger(it.value)], mem, n)
            ELSE Done(h, "Error", over)
     ELSE Done(h, "Error", over)

\* the NackId step; `it` is at position 2
decodeId(h, mem, n) ==
  LET it == mem[2]
      over == 2 > n
  IN IF it.type = Unmapped THEN Done(h, "crash", over)
     ELSE IF it.type = NackId THEN
            IF CanReadNonNegativeInteger(it.value)
            THEN decodePrefixLength(
                   [h EXCEPT !.m_nackId = readNonNegativeInteger(it.value)], mem, n)
            ELSE Done(h, "Error", over)
     ELSE Done(h, "Error", over)

\* the NackReason step; `it` is elements_begin(), which exists
decodeReason(h, mem, n) ==
  LET it == mem[1]
  IN IF it.type = NackReasonType THEN
       IF CanReadNonNegativeInteger(it.value)
       THEN decodeId([h EXCEPT !.m_reason = UintToReason(readNonNegativeInteger(it.value))],
                     mem, n)
       ELSE Done(h, "Error", FALSE)
     ELSE Done(h, "Error", FALSE)

\* lines 130-185: the fields are reset, then the children are walked
decodeChildren(h, elems, beyond) ==
  IF Len(elems) > 0
  THEN decodeReason([h EXCEPT !.m_reason = NONE, !.m_fakeInterestNames = <<>>],
                    elems \o beyond, Len(elems))
  ELSE Done([h EXCEPT !.m_reason = NONE, !.m_fakeInterestNames = <<>>], "ok", FALSE)

\* lines 128-129: m_wire = wire; m_wire.parse(), which may throw
decodeParsed(h, parsed, beyond) ==
  IF ~parsed.ok THEN Done(h, "Error", FALSE)
  ELSE decodeChildren(h, parsed.elems, beyond)

\* void NackHeader::wireDecode(const Block& wire); beyond is the memory past
\* the end of the element vector
wireDecode(h, wire, beyond) ==
  IF BlockType(wire) # Nack THEN Done(h, "Error", FALSE)
  ELSE decodeParsed([h EXCEPT !.m_wire = wire], ParseElements(BlockValue(wire)), beyond)

----------------------------------------------------------------------------
(* Bounds and inputs *)

\* the longest name list given to setNames
MaxNames == 2

NameAB == <<[type |-> GenericNameComponent, value |-> <<97>>],
            [type |-> GenericNameComponent, value |-> <<98>>]>>
NameC == <<[type |-> GenericNameComponent, value |-> <<99>>]>>
NameVals == {NameAB, NameC}
NameLists == UNION {[1..k -> NameVals] : k \in 0..MaxNames}

\* 2^32 + 50: a value that needs eight bytes
Big64 == <<0, 0, 0, 1, 0, 0, 0, 50>>
\* the 64-bit values of the model: one of two bytes, one of eight
IdVals == {Nat64(300), Big64}
PrefixVals == {Nat64(300), Big64}

\* what an uninitialized uint64_t member may hold
Indeterminate == {Nat64(300), Big64}

\* wires given to wireDecode, by their children
ReasonElem(value) == MakeBlock(NackReasonType, value)
IdElem == MakeBlock(NackId, <<1, 44>>)
PrefixElem == MakeBlock(NackPrefixLength, <<1, 44>>)
ListElem(children) == MakeBlock(NackFakeNameList, children)
OtherElem == MakeBlock(GenericNameComponent, <<120>>)

EmptyNack == MakeBlock(Nack, <<>>)
WrongOuterType == MakeBlock(NackReasonType, <<50>>)
OneChild == MakeBlock(Nack, ReasonElem(<<50>>))
TwoChildren == MakeBlock(Nack, ReasonElem(<<50>>) \o IdElem)
ThreeChildren == MakeBlock(Nack, ReasonElem(<<50>>) \o IdElem \o PrefixElem)
IdBeforeReason == MakeBlock(Nack, IdElem \o ReasonElem(<<50>>) \o PrefixElem \o ListElem(<<>>))
NameForList ==
  MakeBlock(Nack, ReasonElem(<<50>>) \o IdElem \o PrefixElem \o NameWireEncode(NameC))
ExtraChild ==
  MakeBlock(Nack, ReasonElem(<<100>>) \o IdElem \o PrefixElem \o ListElem(<<>>) \o OtherElem)
MixedList ==
  MakeBlock(Nack, ReasonElem(<<150>>) \o IdElem \o PrefixElem
                  \o ListElem(NameWireEncode(NameAB) \o OtherElem \o NameWireEncode(NameC)))
NonNameFirst ==
  MakeBlock(Nack, ReasonElem(<<150>>) \o IdElem \o PrefixElem
                  \o ListElem(OtherElem \o NameWireEncode(NameC)))
UnknownReason == MakeBlock(Nack, ReasonElem(<<7>>) \o IdElem \o PrefixElem \o ListElem(<<>>))
WideReason == MakeBlock(Nack, ReasonElem(Big64) \o IdElem \o PrefixElem \o ListElem(<<>>))
BadReasonLength ==
  MakeBlock(Nack, ReasonElem(<<1, 2, 3>>) \o IdElem \o PrefixElem \o ListElem(<<>>))
LengthOverrun == MakeBlock(Nack, VarNumberBytes(NackReasonType) \o <<5, 1>>)

DecodeInputs == {EmptyNack, WrongOuterType, OneChild, TwoChildren, ThreeChildren,
                 IdBeforeReason, NameForList, ExtraChild, MixedList, NonNameFirst,
                 UnknownReason, WideReason, BadReasonLength, LengthOverrun}

\* what a slot past the end of the element vector may hold: unmapped memory,
\* a zeroed Block, or a Block of the very type the code compares with when it
\* reads the slot as child k
UnmappedSlot == [type |-> Unmapped, value |-> <<>>]
ZeroedSlot == [type |-> 0, value |-> <<>>]
MatchingSlot(k) ==
  IF k = 2 THEN [type |-> NackId, value |-> <<1, 44>>]
  ELSE IF k = 3 THEN [type |-> NackPrefixLength, value |-> <<1, 44>>]
  ELSE [type |-> NackFakeNameList, value |-> <<>>]

\* the memory past the end that wireDecode(wire) can read: the iterator is
\* advanced three times, so up to 4 - n slots when the wire has n = 1, 2 or 3
\* children.  The call ends at the first slot that does not match, so the
\* slots behind that one are left out.
BeyondSlots(n) ==
  {[i \in 1..j |-> MatchingSlot(n + i)] \o <<x>> :
     j \in 0..(3 - n), x \in {UnmappedSlot, ZeroedSlot}}
  \cup {[i \in 1..(4 - n) |-> MatchingSlot(n + i)]}

ChildCount(parsed) == IF parsed.ok THEN Len(parsed.elems) ELSE 0

BeyondEnd(wire) ==
  IF BlockType(wire) = Nack /\ ChildCount(ParseElements(BlockValue(wire))) \in 1..3
  THEN BeyondSlots(ChildCount(ParseElements(BlockValue(wire))))
  ELSE {<<>>}

\* the reasons given to setReason in the life of one header: one negative
\* reason of each kind getReason distinguishes, NONE and one positive reason
ReasonInputs == {DDOS_FAKE_INTEREST, DDOS_RESET_RATE, NONE, CONGESTION}

----------------------------------------------------------------------------
(* The state machine: one NackHeader and the calls made on it *)

NoArg == [op |-> "none", reason |-> NONE, num |-> Zeros(8), names |-> <<>>, wire |-> <<>>]
NoFields == [reason |-> NONE, id |-> Zeros(8), prefixLen |-> Zeros(8), names |-> <<>>]
NoPre == [id |-> Zeros(8), prefixLen |-> Zeros(8)]
NoRet == [outcome |-> "ok", block |-> <<>>, reason |-> NONE, overread |-> FALSE]
NoPasses == [ran |-> FALSE, estimatedSize |-> 0, returned |-> 0, written |-> 0]
NoSev == [pc |-> "idle", x |-> NONE, y |-> NONE, res |-> FALSE]

\* NackHeader::NackHeader(): m_reason(NackReason::NONE); m_nackId and
\* m_prefixLen are left uninitialized
Init ==
  /\ m_reason = NONE
  /\ m_nackId \in Indeterminate
  /\ m_prefixLen \in Indeterminate
  /\ m_fakeInterestNames = <<>>
  /\ m_wire = <<>>
  /\ lastCall = "NackHeader"
  /\ lastMut = NoArg
  /\ expected = NoFields
  /\ pre = NoPre
  /\ ret = NoRet
  /\ passes = NoPasses
  /\ crashed = FALSE
  /\ sev = NoSev

\* the header becomes h
Becomes(h) ==
  /\ m_reason' = h.m_reason
  /\ m_nackId' = h.m_nackId
  /\ m_prefixLen' = h.m_prefixLen
  /\ m_fakeInterestNames' = h.m_fakeInterestNames
  /\ m_wire' = h.m_wire

\* a wireDecode has ended as r
Decoded(r) ==
  /\ Becomes(r.h)
  /\ ret' = [NoRet EXCEPT !.outcome = r.outcome, !.overread = r.overread]
  /\ crashed' = (r.outcome = "crash")

\* bookkeeping of a call that assigns fields
Called(name, arg) ==
  /\ lastCall' = name
  /\ lastMut' = arg
  /\ expected' = IF name = "setReason" THEN [FieldsOf(This) EXCEPT !.reason = arg.reason]
                 ELSE IF name = "setId" THEN [FieldsOf(This) EXCEPT !.id = arg.num]
                 ELSE IF name = "setPrefix" THEN [FieldsOf(This) EXCEPT !.prefixLen = arg.num]
                 ELSE IF name = "setNames" THEN [FieldsOf(This) EXCEPT !.names = arg.names]
                 ELSE NoFields
  /\ pre' = IF name = "wireDecode" THEN [id |-> m_nackId, prefixLen |-> m_prefixLen]
            ELSE NoPre
  /\ passes' = NoPasses
  /\ UNCHANGED sev

\* NackHeader& NackHeader::setReason(NackReason reason)
setReason ==
  /\ ~crashed
  /\ \E reason \in ReasonInputs :
       /\ m_reason' = reason
       /\ m_wire' = <<>>
       /\ Called("setReason", [NoArg EXCEPT !.op = "setReason", !.reason = reason])
  /\ ret' = NoRet
  /\ UNCHANGED <<m_nackId, m_prefixLen, m_fakeInterestNames, crashed>>

\* NackHeader& NackHeader::setId(uint64_t id)
setId_KeepsWire ==
  /\ ~crashed
  /\ \E id \in IdVals :
       /\ m_nackId' = id
       /\ Called("setId", [NoArg EXCEPT !.op = "setId", !.num = id])
  /\ ret' = NoRet
  /\ UNCHANGED <<m_reason, m_prefixLen, m_fakeInterestNames, m_wire, crashed>>

setId ==
  /\ ~crashed
  /\ \E id \in IdVals :
       /\ m_nackId' = id
       /\ m_wire' = <<>>
       /\ Called("setId", [NoArg EXCEPT !.op = "setId", !.num = id])
  /\ ret' = NoRet
  /\ UNCHANGED <<m_reason, m_prefixLen, m_fakeInterestNames, crashed>>

\* NackHeader& NackHeader::setPrefix(uint64_t prefix)
setPrefix ==
  /\ ~crashed
  /\ \E prefix \in PrefixVals :
       /\ m_prefixLen' = prefix
       /\ m_wire' = <<>>
       /\ Called("setPrefix", [NoArg EXCEPT !.op = "setPrefix", !.num = prefix])
  /\ ret' = NoRet
  /\ UNCHANGED <<m_reason, m_nackId, m_fakeInterestNames, crashed>>

\* NackHeader& NackHeader::setNames(std::list<Name> names)
setNames ==
  /\ ~crashed
  /\ \E names \in NameLists :
       /\ m_fakeInterestNames' = names
       /\ m_wire' = <<>>
       /\ Called("setNames", [NoArg EXCEPT !.op = "setNames", !.names = names])
  /\ ret' = NoRet
  /\ UNCHANGED <<m_reason, m_nackId, m_prefixLen, crashed>>

\* NackReason NackHeader::getReason() const, called
callGetReason ==
  /\ ~crashed
  /\ lastCall' = "getReason"
  /\ ret' = [NoRet EXCEPT !.reason = getReason(m_reason)]
  /\ passes' = NoPasses
  /\ UNCHANGED <<m_reason, m_nackId, m_prefixLen, m_fakeInterestNames, m_wire,
                 lastMut, expected, pre, crashed, sev>>

\* lines 109-113: the count of the estimator pass, the count the buffer pass
\* returns and the bytes it has written
TwoPasses(estimatedSize, buffer) ==
  [ran |-> TRUE, estimatedSize |-> estimatedSize, returned |-> buffer.length,
   written |-> Len(buffer.enc.buf)]

\* const Block& NackHeader::wireEncode() const
wireEncode ==
  /\ ~crashed
  /\ lastCall' = "wireEncode"
  /\ IF hasWire(m_wire)
     THEN /\ m_wire' = m_wire
          /\ passes' = NoPasses
     ELSE /\ m_wire' = wireEncodeT("Buffer", This).enc.buf
          /\ passes' = TwoPasses(wireEncodeT("Estimator", This).length,
                                 wireEncodeT("Buffer", This))
  /\ ret' = [NoRet EXCEPT !.block = m_wire']
  /\ UNCHANGED <<m_reason, m_nackId, m_prefixLen, m_fakeInterestNames,
                 lastMut, expected, pre, crashed, sev>>

\* void NackHeader::wireDecode(const Block& wire), called with a wire of
\* DecodeInputs
callWireDecode ==
  /\ ~crashed
  /\ \E wire \in DecodeInputs :
       \E beyond \in BeyondEnd(wire) :
         /\ Decoded(wireDecode(This, wire, beyond))
         /\ Called("wireDecode", [NoArg EXCEPT !.op = "wireDecode", !.wire = wire])

Next ==
  \/ setReason
  \/ setId
  \/ setPrefix
  \/ setNames
  \/ callGetReason
  \/ wireEncode
  \/ callWireDecode

Spec == Init /\ [][Next]_vars

----------------------------------------------------------------------------
(* The codec on its own: a header with every field assigned by its setter   *)
(* is encoded, and a second header is constructed from the Block returned;  *)
(* the state then follows the second header, and expected keeps the fields  *)
(* of the first.                                                            *)

\* NackHeader h; h.setReason(..).setId(..).setPrefix(..).setNames(..)
InitCodec ==
  /\ m_reason \in NackReason
  /\ m_nackId \in IdVals
  /\ m_prefixLen \in PrefixVals
  /\ m_fakeInterestNames \in NameLists
  /\ m_wire = <<>>
  /\ lastCall = "setNames"
  /\ lastMut = [NoArg EXCEPT !.op = "setNames", !.names = m_fakeInterestNames]
  /\ expected = FieldsOf(This)
  /\ pre = NoPre
  /\ ret = NoRet
  /\ passes = NoPasses
  /\ crashed = FALSE
  /\ sev = NoSev

\* NackHeader::NackHeader(const Block& block), given the Block the last
\* wireEncode() returned: no member is initialized before wireDecode(block)
NackHeaderFromBlock ==
  /\ ~crashed
  /\ lastCall = "wireEncode"
  /\ \E reason \in {NONE, DUPLICATE}, id \in Indeterminate, prefixLen \in Indeterminate :
       Decoded(wireDecode(Header(reason, id, prefixLen, <<>>, <<>>), ret.block, <<>>))
  /\ lastCall' = "NackHeader(block)"
  /\ lastMut' = [NoArg EXCEPT !.op = "NackHeader(block)", !.wire = ret.block]
  /\ expected' = FieldsOf(This)
  /\ pre' = NoPre
  /\ passes' = NoPasses
  /\ UNCHANGED sev

NextCodec ==
  \/ wireEncode
  \/ NackHeaderFromBlock

SpecCodec == InitCodec /\ [][NextCodec]_vars

----------------------------------------------------------------------------
(* isLessSevere on its own: the arguments are drawn, then the call is made *)

\* the enumerated reasons and one value outside the enumeration
SevInputs == NackReason \cup {7}

InitSev ==
  /\ m_reason = NONE
  /\ m_nackId \in Indeterminate
  /\ m_prefixLen \in Indeterminate
  /\ m_fakeInterestNames = <<>>
  /\ m_wire = <<>>
  /\ lastCall = "NackHeader"
  /\ lastMut = NoArg
  /\ expected = NoFields
  /\ pre = NoPre
  /\ ret = NoRet
  /\ passes = NoPasses
  /\ crashed = FALSE
  /\ sev \in [pc : {"call"}, x : SevInputs, y : SevInputs, res : {FALSE}]

callIsLessSevere ==
  /\ sev.pc = "call"
  /\ sev' = [sev EXCEPT !.pc = "done", !.res = isLessSevere(sev.x, sev.y)]
  /\ UNCHANGED <<m_reason, m_nackId, m_prefixLen, m_fakeInterestNames, m_wire,
                 lastCall, lastMut, expected, pre, ret, passes, crashed>>

NextSev == callIsLessSevere

SpecSev == InitSev /\ [][NextSev]_vars

----------------------------------------------------------------------------
(* Properties *)

Setters == {"setReason", "setId", "setPrefix", "setNames"}

\* the children of a wire, where parse() succeeds
ChildrenOf(wire) == ParseElements(BlockValue(wire)).elems
Parses(wire) == ParseElements(BlockValue(wire)).ok

\* the children begin with Reason, Id, PrefixLength, FakeNameList in that order
BeginsInOrder(elems) ==
  /\ Len(elems) >= 4
  /\ elems[1].type = NackReasonType
  /\ elems[2].type = NackId
  /\ elems[3].type = NackPrefixLength
  /\ elems[4].type = NackFakeNameList

\* a NACK whose four fields are in place and whose three integers are readable
WellFormed(wire) ==
  /\ BlockType(wire) = Nack
  /\ Parses(wire)
  /\ BeginsInOrder(ChildrenOf(wire))
  /\ \A k \in 1..3 : CanReadNonNegativeInteger(ChildrenOf(wire)[k].value)

\* what a header that held other values decodes from a Block
DecodedAfresh(block) ==
  wireDecode(Header(DUPLICATE, Zeros(8), Zeros(8), <<NameC>>, <<>>), block, <<>>)

\* C1: a header whose fields were set by the setters is encoded and a second
\* header is made from the Block: no error is raised, and reason, getReason(),
\* id, prefixLen and the names in their order are those of the first header.
C1_RoundTrip ==
  lastCall = "NackHeader(block)" =>
    /\ ret.outcome = "ok"
    /\ ~ret.overread
    /\ FieldsOf(This) = expected
    /\ getReason(m_reason) = getReason(expected.reason)

C1_Witness ==
  /\ lastCall = "NackHeader(block)"
  /\ expected.names = <<NameAB, NameC>>
  /\ expected.reason = DDOS_HINT_CHANGE_NOTICE
  /\ expected.id = Big64
  /\ m_fakeInterestNames = <<NameAB, NameC>>

\* C2: whenever the cached Block is present, it is byte for byte the encoding
\* the encoder produces from the current reason, id, prefixLen and names.
C2_CacheCoherent ==
  hasWire(m_wire) => m_wire = wireEncodeT("Buffer", This).enc.buf

\* C3: wireDecode of a Block whose type is not Nack, or of a Nack with at
\* least one child whose children do not begin with Reason, Id, PrefixLength,
\* FakeNameList in that order, ends in an Error, and no child past the end of
\* the children is read.
Malformed(wire) ==
  \/ BlockType(wire) # Nack
  \/ /\ Parses(wire)
     /\ Len(ChildrenOf(wire)) >= 1
     /\ ~BeginsInOrder(ChildrenOf(wire))

C3_StructuralRejection ==
  (lastCall = "wireDecode" /\ Malformed(lastMut.wire)) =>
    (ret.outcome = "Error" /\ ~ret.overread)

\* C4: right after any setter the header has no cached Block, and a
\* wireEncode() that follows it (with no other assignment in between) returns
\* a Block that decodes without error to the value set and the former values
\* of the other three fields.
C4_CacheInvalidation ==
  /\ (lastCall \in Setters) => ~hasWire(m_wire)
  /\ (lastCall = "wireEncode" /\ lastMut.op \in Setters) =>
       /\ hasWire(ret.block)
       /\ DecodedAfresh(ret.block).outcome = "ok"
       /\ FieldsOf(DecodedAfresh(ret.block).h) = expected

C4_Witness ==
  /\ lastCall = "wireEncode"
  /\ lastMut.op = "setId"
  /\ lastMut.num = Big64
  /\ m_reason = 7
  /\ passes.ran

\* C5: getReason() right after setReason(r) returns r, and getReason()
\* returns NONE only when the stored reason is NONE or is not enumerated.
C5_GetReasonReturnsSet ==
  lastCall = "getReason" =>
    /\ (lastMut.op = "setReason") => (ret.reason = lastMut.reason)
    /\ (ret.reason = NONE) => (m_reason = NONE \/ m_reason \notin NackReason)

\* C6: isLessSevere(NONE, y) is false for every y; isLessSevere(x, NONE) is
\* true for every x other than NONE; for x and y other than NONE,
\* isLessSevere(x, y) is true exactly when the tag of x is below the tag of y.
C6_SeverityOrdering ==
  sev.pc = "done" =>
    /\ (sev.x = NONE) => ~sev.res
    /\ (sev.x # NONE /\ sev.y = NONE) => sev.res
    /\ (sev.x # NONE /\ sev.y # NONE) => (sev.res <=> sev.x < sev.y)

C6_Witness ==
  /\ sev.pc = "done"
  /\ sev.x = DDOS_HINT_CHANGE_NOTICE
  /\ sev.y = NONE
  /\ sev.res

\* C7: after wireDecode of a well-formed NACK whose Reason field holds a
\* number that no enumerated reason is written as, no error is raised and
\* getReason() returns NONE.
ReasonsOnWire == {ReasonToUint(r) : r \in NackReason}

C7_UnknownReasonIsNone ==
  (/\ lastCall = "wireDecode"
   /\ WellFormed(lastMut.wire)
   /\ readNonNegativeInteger(ChildrenOf(lastMut.wire)[1].value) \notin ReasonsOnWire) =>
    (ret.outcome = "ok" /\ getReason(m_reason) = NONE)

\* C8: wireDecode of a Nack with no children raises no error and leaves
\* reason NONE, no names, and an id and a prefixLen that a header with another
\* id and another prefixLen before the call is left with as well.
C8_EmptyNackGivesDefaults ==
  (lastCall = "wireDecode" /\ lastMut.wire = EmptyNack) =>
    /\ ret.outcome = "ok"
    /\ m_reason = NONE
    /\ m_fakeInterestNames = <<>>
    /\ \A id \in IdVals, prefixLen \in PrefixVals :
         (id # pre.id /\ prefixLen # pre.prefixLen) =>
           FieldsOf(wireDecode(Header(NONE, id, prefixLen, <<>>, <<>>),
                               EmptyNack, <<>>).h) = FieldsOf(This)

\* C9: in every wireEncode() that encodes, the count of the estimator pass
\* equals the count the buffer pass returns and the number of bytes it has
\* written, which are the bytes of the Block cached.
C9_PassesAgree ==
  passes.ran =>
    /\ passes.estimatedSize = passes.returned
    /\ passes.returned = passes.written
    /\ passes.written = Len(m_wire)

C9_Witness ==
  /\ passes.ran
  /\ m_fakeInterestNames = <<NameAB, NameC>>
  /\ m_nackId = Big64
  /\ m_reason = DDOS_FAKE_INTEREST

\* C10: after wireDecode of a NACK whose first three children are valid and
\* whose fourth is a FakeNameList, the names are the longest leading run of
\* Name children of that list, in their order; the first child that is not a
\* Name ends the run without an error.
RECURSIVE LeadingNames(_)
LeadingNames(children) ==
  IF children = <<>> \/ children[1].type # NameType THEN <<>>
  ELSE <<children[1]>> \o LeadingNames(Tail(children))

ListChildren(wire) == ParseElements(ChildrenOf(wire)[4].value)

C10_LeadingNamesOnly ==
  (/\ lastCall = "wireDecode"
   /\ WellFormed(lastMut.wire)
   /\ ListChildren(lastMut.wire).ok
   /\ \A i \in DOMAIN LeadingNames(ListChildren(lastMut.wire).elems) :
        CanDecodeName(LeadingNames(ListChildren(lastMut.wire).elems)[i])) =>
    /\ ret.outcome = "ok"
    /\ m_fakeInterestNames =
         [i \in DOMAIN LeadingNames(ListChildren(lastMut.wire).elems) |->
            NameWireDecode(LeadingNames(ListChildren(lastMut.wire).elems)[i])]

C10_Witness ==
  /\ lastCall = "wireDecode"
  /\ lastMut.wire = MixedList
  /\ ret.outcome = "ok"
  /\ m_fakeInterestNames = <<NameAB>>

====
